---- MODULE Spec2Model ----
(***************************************************************************)
(* gighub: the schema migration runner (db.Setup / runMigrations) and the  *)
(* account handlers of main.go, as a state machine.                        *)
(*                                                                         *)
(* File names are sequences of one-character strings so that the name      *)
(* parsing of runMigrations (strings.Split, strconv.Atoi) and the          *)
(* file-name order of embed.FS.ReadDir are computed, not assumed.          *)
(***************************************************************************)
EXTENDS Integers, Sequences, FiniteSets, Bags, TLC

\* ------------------------------------------------------------------ bounds
\* at most this many scripts in one embedded migrations directory
MaxScripts == 2
\* at most this many OAuth callbacks in flight at once
MaxCallbacks == 2
\* at most this many sessions in the session store at once
MaxSessions == 2
\* user rows an administrator deletes in a behaviour
MaxDeleted == 1

\* ------------------------------------------------------- names and parsing
Digits == {"0", "1", "2", "3", "4", "5", "6", "7", "8", "9"}

\* byte value of a character (the order ReadDir sorts file names by)
Ord(c) ==
  CASE c = "+" -> 43
    [] c = "-" -> 45
    [] c = "." -> 46
    [] c = "0" -> 48
    [] c = "1" -> 49
    [] c = "2" -> 50
    [] c = "3" -> 51
    [] c = "4" -> 52
    [] c = "5" -> 53
    [] c = "6" -> 54
    [] c = "7" -> 55
    [] c = "8" -> 56
    [] c = "9" -> 57
    [] c = "_" -> 95
    [] c = "a" -> 97
    [] c = "b" -> 98
    [] c = "l" -> 108
    [] c = "q" -> 113
    [] c = "s" -> 115
    [] c = "x" -> 120
    [] c = "y" -> 121

DigitVal(c) == Ord(c) - 48

\* the embed pattern migrations/*.sql : every entry name ends in .sql
Ext == <<".", "s", "q", "l">>

\* file names a migrations directory of the model may hold
NamePool ==
  { <<"1", "_", "a">> \o Ext,
    <<"0", "1", "_", "b">> \o Ext,
    <<"2", "_", "a">> \o Ext,
    <<"9", "_", "x">> \o Ext,
    <<"1", "0", "_", "y">> \o Ext,
    <<"x", "_", "1">> \o Ext,
    <<"3">> \o Ext }

\* the migrations directory of the repository: 001_, 002_, 003_
RepoEntries ==
  << <<"0", "0", "1", "_", "a">> \o Ext,
     <<"0", "0", "2", "_", "a">> \o Ext,
     <<"0", "0", "3", "_", "a">> \o Ext >>

RECURSIVE LexLess(_, _)
\* a < b as Go strings (byte-wise)
LexLess(a, b) ==
  IF b = <<>> THEN FALSE
  ELSE IF a = <<>> THEN TRUE
  ELSE IF Ord(Head(a)) # Ord(Head(b)) THEN Ord(Head(a)) < Ord(Head(b))
  ELSE LexLess(Tail(a), Tail(b))

RECURSIVE ReadDir(_)
\* the directory entries, sorted by file name
ReadDir(S) ==
  IF S = {} THEN <<>>
  ELSE LET m == CHOOSE x \in S : \A y \in S \ {x} : LexLess(x, y)
       IN  <<m>> \o ReadDir(S \ {m})

RECURSIVE SplitFirst(_)
\* strings.Split(name, "_")[0] : the part before the first underscore
SplitFirst(s) ==
  IF s = <<>> THEN <<>>
  ELSE IF Head(s) = "_" THEN <<>>
  ELSE <<Head(s)>> \o SplitFirst(Tail(s))

RECURSIVE DecVal(_, _)
DecVal(s, acc) ==
  IF s = <<>> THEN acc ELSE DecVal(Tail(s), 10 * acc + DigitVal(Head(s)))

\* strconv.Atoi : optional sign, then one or more decimal digits
Atoi(s) ==
  LET signed == s # <<>> /\ Head(s) \in {"+", "-"}
      body   == IF signed THEN Tail(s) ELSE s
  IN  IF body = <<>> \/ \E i \in 1..Len(body) : body[i] \notin Digits
      THEN [ok |-> FALSE, val |-> 0]
      ELSE [ok |-> TRUE,
            val |-> IF signed /\ Head(s) = "-" THEN 0 - DecVal(body, 0)
                    ELSE DecVal(body, 0)]

\* the version runMigrations reads off an entry name
ParseVersion(name) == Atoi(SplitFirst(name))

\* ------------------------------------------------------------------- state
VARIABLES
  entries,            \* migrationsFS: the embedded entries, in ReadDir order
  pc,                 \* position of the process in main / Setup / runMigrations
  idx,                \* index of the loop of runMigrations
  currentVersion,     \* local of runMigrations
  dbOpen,             \* dbConn is open
  queries,            \* Setup returned a query handle
  tableExists,        \* schema_migrations exists in the store
  schema,             \* committed script effects, in commit order
  schema_migrations,  \* committed version records, in insertion order
  txSchema,           \* script effects pending in the open transaction
  txVersions,         \* version inserts pending in the open transaction
  runExec,            \* history: entries whose statements this run executed
  runCommitted,       \* history: versions this run committed, in order
  startVersions,      \* history: schema_migrations when this process started
  startSchema,        \* history: schema when this process started
  lastRunOK,          \* history: a run of this entry set has succeeded
  prevRunOK,          \* history: lastRunOK when this process started
  runs,               \* history: runMigrations calls of this process
  failedAt,           \* history: the step of this run that failed, or "none"
  users,              \* the users table
  nextID,             \* AUTOINCREMENT counter of users.id
  nextToken,          \* the next fresh verification token (crypto/rand)
  message,            \* the guestbook table: the message of row 1, if any
  mail,               \* verification emails whose goroutine has not run yet
  sessions,           \* the session store of sessionManager (in memory)
  cookie,             \* the session cookie each client holds
  cb,                 \* the OAuth callbacks in flight: a bag of requests
  served,             \* history: this process has handled a request
  created,            \* history: per email, the rows CreateUser has inserted
  rejected,           \* history: a CreateUser was refused for a taken email
  verifyOK,           \* history: per token, the successful calls of VerifyUser
  replayed,           \* history: VerifyUser found no row for a token it had taken
  probe,              \* a test client is attached that records the responses
  last,               \* history: the last request the probe saw, its response
  issued              \* history: per client, the session token last issued

migVars == <<entries, pc, idx, currentVersion, dbOpen, queries, tableExists,
             schema, schema_migrations, txSchema, txVersions>>
runHist == <<runExec, runCommitted, startVersions, startSchema, lastRunOK,
             prevRunOK, runs>>
histVars == <<runHist, failedAt>>
storeVars == <<users, nextID, nextToken, message>>
procVars == <<mail, sessions, cb, served>>
clientVars == <<cookie>>
authHist == <<created, rejected, verifyOK, replayed>>
obsVars == <<probe, last, issued>>
authVars == <<storeVars, procVars, clientVars, authHist, obsVars>>
vars == <<migVars, histVars, authVars>>

\* ----------------------------------------------------------------- helpers
Range(s) == {s[i] : i \in 1..Len(s)}

\* SELECT COALESCE(MAX(version), 0) FROM schema_migrations
MaxVersion(recs) ==
  IF recs = <<>> THEN 0
  ELSE CHOOSE v \in Range(recs) : \A w \in Range(recs) : w <= v

\* ------------------------------------------------------- accounts: values
\* the email addresses requests carry (form field, provider account)
Emails == {"a@x.com"}
\* the passwords requests carry
Passwords == {"pw1", "pw2"}
\* the browsers
Clients == {"c1"}

\* a nullable column, as sql.NullString / sql.NullTime: NULL has Valid = false
NULL == [valid |-> FALSE, val |-> 0]

NotNull(x) == [valid |-> TRUE, val |-> x]

\* the value verified_at gets from CURRENT_TIMESTAMP
Timestamp == NotNull(1)

\* a client without a session cookie
NoToken == 0

\* a session token the generator never returns
Forged == -1

\* the guestbook table has no row 1: GetMessage returns sql.ErrNoRows
NoMessage == [valid |-> FALSE, val |-> ""]

\* the messages a guestbook form carries
Messages == {"hi"}

\* the 32 random bytes the OAuth callback hashes: no client can type them
RandomPassword == "rand32"

\* the verification tokens a request may present: every token a behaviour
\* issues (one per user row: one row per email, and one more for each row
\* that was deleted), among them one that is never issued unless a row is
\* deleted and its email signs up again
TokenInputs == 1..(Cardinality(Emails) + MaxDeleted)

\* a /verify request without the query parameter token
EmptyToken == 0

\* an address no signup and no provider ever uses
Unknown == "nobody@x.com"

\* sessionManager.Lifetime = 24 * time.Hour, in units of 12 hours
Lifetime == 2

\* what a client sees of a response: http.Error(w, body, status), w.Write(body)
\* with status 200, http.Redirect(w, r, body, status)
Response(status, body) == [status |-> status, body |-> body]

\* no request seen yet
NoRequest ==
  [seq |-> 0, op |-> "none", csrf |-> FALSE, email |-> "", password |-> "",
   token |-> 0, status |-> 0, body |-> ""]

\* no session token issued yet
NoIssue == [token |-> NoToken, age |-> 0, ended |-> FALSE]

\* bcrypt.GenerateFromPassword
Bcrypt(password) == [alg |-> "bcrypt", of |-> password]

\* bcrypt.CompareHashAndPassword returns nil
CompareHashAndPassword(hash, password) == hash.alg = "bcrypt" /\ hash.of = password

\* ------------------------------------------------------------------- Init
InitStore ==
  /\ pc = "stopped"
  /\ idx = 0
  /\ currentVersion = 0
  /\ dbOpen = FALSE
  /\ queries = FALSE
  /\ tableExists = FALSE
  /\ schema = <<>>
  /\ schema_migrations = <<>>
  /\ txSchema = <<>>
  /\ txVersions = <<>>
  /\ runExec = <<>>
  /\ runCommitted = <<>>
  /\ startVersions = <<>>
  /\ startSchema = <<>>
  /\ lastRunOK = FALSE
  /\ prevRunOK = FALSE
  /\ runs = 0
  /\ failedAt = "none"

\* no account, no session, no request
InitAuth ==
  /\ users = {}
  /\ nextID = 1
  /\ nextToken = 1
  /\ message = NoMessage
  /\ mail = {}
  /\ sessions = {}
  /\ cookie = [c \in Clients |-> NoToken]
  /\ cb = EmptyBag
  /\ served = FALSE
  /\ created = [e \in Emails |-> <<>>]
  /\ rejected = FALSE
  /\ verifyOK = [t \in TokenInputs |-> 0]
  /\ replayed = FALSE
  /\ last = NoRequest
  /\ issued = [c \in Clients |-> NoIssue]

EntrySets == {S \in SUBSET NamePool : Cardinality(S) <= MaxScripts}

\* any set of scripts, a fresh store
InitMig ==
  /\ entries \in {ReadDir(S) : S \in EntrySets}
  /\ InitStore
  /\ InitAuth
  /\ probe = FALSE

\* the repository's scripts, a fresh store
Init ==
  /\ entries = RepoEntries
  /\ InitStore
  /\ InitAuth
  /\ probe = FALSE

\* the same, with the probe attached
InitProbe ==
  /\ entries = RepoEntries
  /\ InitStore
  /\ InitAuth
  /\ probe = TRUE

\* ---------------------------------------------------- main, Setup: startup
\* main up to db.Setup, and Setup's writable check and sql.Open
Start ==
  /\ pc \in {"stopped", "exited"}
  /\ \E ok \in BOOLEAN :
       IF ok THEN /\ dbOpen' = TRUE
                  /\ pc' = "createTable"
             ELSE /\ dbOpen' = FALSE
                  /\ pc' = "fatal"
  /\ queries' = FALSE
  /\ idx' = 0
  /\ currentVersion' = 0
  /\ runExec' = <<>>
  /\ runCommitted' = <<>>
  /\ runs' = 0
  /\ failedAt' = "none"
  /\ startVersions' = schema_migrations
  /\ startSchema' = schema
  /\ prevRunOK' = lastRunOK
  /\ UNCHANGED <<entries, tableExists, schema, schema_migrations,
                 txSchema, txVersions, lastRunOK>>
  /\ UNCHANGED authVars

\* ------------------------------------------------------------ runMigrations
\* a step of runMigrations returns an error
Fails(step) ==
  /\ pc' = "failed"
  /\ failedAt' = step

\* CREATE TABLE IF NOT EXISTS schema_migrations
CreateTable ==
  /\ pc = "createTable"
  /\ runs' = runs + 1
  /\ \E ok \in BOOLEAN :
       IF ok THEN /\ tableExists' = TRUE
                  /\ pc' = "readVersion"
                  /\ UNCHANGED failedAt
             ELSE /\ tableExists' = tableExists
                  /\ Fails("createTable")
  /\ UNCHANGED <<entries, idx, currentVersion, dbOpen, queries, schema,
                 schema_migrations, txSchema, txVersions, runExec,
                 runCommitted, startVersions, startSchema, lastRunOK,
                 prevRunOK>>
  /\ UNCHANGED authVars

\* currentVersion is read once, before the loop
ReadVersion ==
  /\ pc = "readVersion"
  /\ \E ok \in BOOLEAN :
       IF ok THEN /\ currentVersion' = MaxVersion(schema_migrations)
                  /\ pc' = "readDir"
                  /\ UNCHANGED failedAt
             ELSE /\ currentVersion' = currentVersion
                  /\ Fails("readVersion")
  /\ UNCHANGED <<entries, idx, dbOpen, queries, tableExists, schema,
                 schema_migrations, txSchema, txVersions, runHist>>
  /\ UNCHANGED authVars

\* migrationsFS.ReadDir("migrations")
ListEntries ==
  /\ pc = "readDir"
  /\ \E ok \in BOOLEAN :
       IF ok THEN /\ idx' = 1
                  /\ pc' = "loop"
                  /\ UNCHANGED failedAt
             ELSE /\ idx' = idx
                  /\ Fails("readDir")
  /\ UNCHANGED <<entries, currentVersion, dbOpen, queries, tableExists, schema,
                 schema_migrations, txSchema, txVersions, runHist>>
  /\ UNCHANGED authVars

\* the entry the loop is at
Entry == entries[idx]

\* variant: the loop's test lets the current version through again
PendingFromCurrent(version) == version >= currentVersion

\* the loop's test: the entry is to be applied
Pending(version) == version > currentVersion

\* variant: an entry name that does not parse ends the run with an error
FailUnparsed ==
  /\ pc = "loop"
  /\ idx <= Len(entries)
  /\ ~ParseVersion(Entry).ok
  /\ Fails("parse")
  /\ UNCHANGED <<entries, idx, currentVersion, dbOpen, queries, tableExists,
                 schema, schema_migrations, txSchema, txVersions, runHist>>
  /\ UNCHANGED authVars

\* strconv.Atoi failed: continue
SkipUnparsed ==
  /\ pc = "loop"
  /\ idx <= Len(entries)
  /\ ~ParseVersion(Entry).ok
  /\ idx' = idx + 1
  /\ UNCHANGED <<entries, pc, currentVersion, dbOpen, queries, tableExists,
                 schema, schema_migrations, txSchema, txVersions, histVars>>
  /\ UNCHANGED authVars

\* version <= currentVersion: nothing to do for this entry
SkipApplied ==
  /\ pc = "loop"
  /\ idx <= Len(entries)
  /\ ParseVersion(Entry).ok
  /\ ~Pending(ParseVersion(Entry).val)
  /\ idx' = idx + 1
  /\ UNCHANGED <<entries, pc, currentVersion, dbOpen, queries, tableExists,
                 schema, schema_migrations, txSchema, txVersions, histVars>>
  /\ UNCHANGED authVars

\* dbConn.Begin()
Begin ==
  /\ pc = "loop"
  /\ idx <= Len(entries)
  /\ ParseVersion(Entry).ok
  /\ Pending(ParseVersion(Entry).val)
  /\ \E ok \in BOOLEAN :
       IF ok THEN /\ pc' = "txExec"
                  /\ UNCHANGED failedAt
             ELSE Fails("begin")
  /\ UNCHANGED <<entries, idx, currentVersion, dbOpen, queries, tableExists,
                 schema, schema_migrations, txSchema, txVersions, runHist>>
  /\ UNCHANGED authVars

\* variant: the statements run on the connection, outside the transaction
ExecOnConn(ok, name) ==
  [tx |-> IF ok THEN txSchema ELSE <<>>,
   db |-> IF ok THEN Append(schema, name) ELSE schema]

\* where the script's statements take effect: in the open transaction
ExecTarget(ok, name) ==
  [tx |-> IF ok THEN Append(txSchema, name) ELSE <<>>, db |-> schema]

\* tx.Exec(content); on error tx.Rollback() and return
TxExec ==
  /\ pc = "txExec"
  /\ runExec' = Append(runExec, Entry)
  /\ \E ok \in BOOLEAN :
       /\ txSchema' = ExecTarget(ok, Entry).tx
       /\ schema' = ExecTarget(ok, Entry).db
       /\ IF ok THEN /\ pc' = "txInsert"
                     /\ UNCHANGED failedAt
                ELSE Fails("exec")
  /\ UNCHANGED <<entries, idx, currentVersion, dbOpen, queries, tableExists,
                 schema_migrations, txVersions, runCommitted,
                 startVersions, startSchema, lastRunOK, prevRunOK, runs>>
  /\ UNCHANGED authVars

\* version INTEGER PRIMARY KEY : the insert of a recorded version fails
PrimaryKeyFree(version) ==
  version \notin Range(schema_migrations) \cup Range(txVersions)

\* INSERT INTO schema_migrations (version); on error tx.Rollback() and return
TxInsert ==
  /\ pc = "txInsert"
  /\ \E ok \in BOOLEAN :
       IF ok /\ PrimaryKeyFree(ParseVersion(Entry).val)
       THEN /\ txVersions' = Append(txVersions, ParseVersion(Entry).val)
            /\ txSchema' = txSchema
            /\ pc' = "txCommit"
            /\ UNCHANGED failedAt
       ELSE /\ txVersions' = <<>>
            /\ txSchema' = <<>>
            /\ Fails("insert")
  /\ UNCHANGED <<entries, idx, currentVersion, dbOpen, queries, tableExists,
                 schema, schema_migrations, runHist>>
  /\ UNCHANGED authVars

\* variant: the commit also advances currentVersion to the committed version
TxCommitAdvances ==
  /\ pc = "txCommit"
  /\ \E ok \in BOOLEAN :
       IF ok THEN /\ schema' = schema \o txSchema
                  /\ schema_migrations' = schema_migrations \o txVersions
                  /\ runCommitted' = runCommitted \o txVersions
                  /\ currentVersion' = ParseVersion(Entry).val
                  /\ idx' = idx + 1
                  /\ pc' = "loop"
                  /\ UNCHANGED failedAt
             ELSE /\ UNCHANGED <<schema, schema_migrations, runCommitted, idx,
                                 currentVersion>>
                  /\ Fails("commit")
  /\ txSchema' = <<>>
  /\ txVersions' = <<>>
  /\ UNCHANGED <<entries, dbOpen, queries, tableExists, runExec,
                 startVersions, startSchema, lastRunOK, prevRunOK, runs>>
  /\ UNCHANGED authVars

\* tx.Commit(): both pending effects become durable, or neither
TxCommit ==
  /\ pc = "txCommit"
  /\ \E ok \in BOOLEAN :
       IF ok THEN /\ schema' = schema \o txSchema
                  /\ schema_migrations' = schema_migrations \o txVersions
                  /\ runCommitted' = runCommitted \o txVersions
                  /\ idx' = idx + 1
                  /\ pc' = "loop"
                  /\ UNCHANGED failedAt
             ELSE /\ UNCHANGED <<schema, schema_migrations, runCommitted, idx>>
                  /\ Fails("commit")
  /\ txSchema' = <<>>
  /\ txVersions' = <<>>
  /\ UNCHANGED <<entries, currentVersion, dbOpen, queries, tableExists,
                 runExec, startVersions, startSchema, lastRunOK, prevRunOK,
                 runs>>
  /\ UNCHANGED authVars

\* the loop is over: return nil
RunDone ==
  /\ pc = "loop"
  /\ idx > Len(entries)
  /\ pc' = "migrated"
  /\ lastRunOK' = TRUE
  /\ UNCHANGED <<entries, idx, currentVersion, dbOpen, queries, tableExists,
                 schema, schema_migrations, txSchema, txVersions, runExec,
                 runCommitted, startVersions, startSchema, prevRunOK, runs,
                 failedAt>>
  /\ UNCHANGED authVars

\* ----------------------------------------------------- Setup, main: outcome
\* variant: Setup drops the error of runMigrations and goes on
SetupIgnoresError ==
  /\ pc = "failed"
  /\ pc' = "migrated"
  /\ UNCHANGED <<entries, idx, currentVersion, dbOpen, queries, tableExists,
                 schema, schema_migrations, txSchema, txVersions, histVars>>
  /\ UNCHANGED authVars

\* Setup: runMigrations failed: dbConn.Close(); return nil, nil, err
SetupFail ==
  /\ pc = "failed"
  /\ dbOpen' = FALSE
  /\ queries' = FALSE
  /\ pc' = "fatal"
  /\ UNCHANGED <<entries, idx, currentVersion, tableExists, schema,
                 schema_migrations, txSchema, txVersions, histVars>>
  /\ UNCHANGED authVars

\* main: log.Fatal(err)
Fatal ==
  /\ pc = "fatal"
  /\ pc' = "exited"
  /\ UNCHANGED <<entries, idx, currentVersion, dbOpen, queries, tableExists,
                 schema, schema_migrations, txSchema, txVersions, histVars>>
  /\ UNCHANGED authVars

\* Setup: return dbConn, New(dbConn), nil
SetupOK ==
  /\ pc = "migrated"
  /\ queries' = TRUE
  /\ pc' = "routes"
  /\ UNCHANGED <<entries, idx, currentVersion, dbOpen, tableExists, schema,
                 schema_migrations, txSchema, txVersions, histVars>>
  /\ UNCHANGED authVars

\* main: the routes are registered, then http.ListenAndServe; the history of
\* the run is dropped once the server is up
Listen ==
  /\ pc = "routes"
  /\ \E ok \in BOOLEAN :
       IF ok THEN /\ pc' = "serving"
                  /\ UNCHANGED <<dbOpen, queries>>
             ELSE /\ pc' = "exited"
                  /\ dbOpen' = FALSE
                  /\ queries' = FALSE
  /\ runExec' = <<>>
  /\ runCommitted' = <<>>
  /\ startVersions' = <<>>
  /\ startSchema' = <<>>
  /\ prevRunOK' = FALSE
  /\ UNCHANGED <<entries, idx, currentVersion, tableExists, schema,
                 schema_migrations, txSchema, txVersions, lastRunOK, runs,
                 failedAt>>
  /\ UNCHANGED authVars

\* the process is killed: an open transaction is rolled back by the store,
\* the goroutines, the requests in flight and the in-memory sessions are gone
Crash ==
  /\ pc \notin {"stopped", "exited"}
  /\ pc' = "exited"
  /\ dbOpen' = FALSE
  /\ queries' = FALSE
  /\ txSchema' = <<>>
  /\ txVersions' = <<>>
  /\ mail' = {}
  /\ sessions' = {}
  /\ cb' = EmptyBag
  /\ served' = FALSE
  /\ UNCHANGED <<entries, idx, currentVersion, tableExists, schema,
                 schema_migrations, histVars, storeVars, clientVars, authHist,
                 obsVars>>

\* a build with another migrations directory is started on the same store
Redeploy ==
  /\ pc = "exited"
  /\ entries' \in {ReadDir(S) : S \in EntrySets} \ {entries}
  /\ lastRunOK' = FALSE
  /\ UNCHANGED <<pc, idx, currentVersion, dbOpen, queries, tableExists, schema,
                 schema_migrations, txSchema, txVersions, runExec,
                 runCommitted, startVersions, startSchema, prevRunOK, runs,
                 failedAt>>
  /\ UNCHANGED authVars

\* ------------------------------------------------------- the users table
\* SELECT * FROM users WHERE email = ? LIMIT 1
GetUserByEmail(email) == {u \in users : u.email = email}

\* variant: the email column carries no UNIQUE constraint
EmailNotChecked(email) == TRUE

\* email TEXT NOT NULL UNIQUE
EmailFree(email) == \A u \in users : u.email # email

\* variant: the statement replaces the row of a taken email (ON CONFLICT(email)
\* DO UPDATE), which comes back unverified with the new hash and token
CreateUserUpserts(email, hash, token) ==
  LET row == [id |-> nextID, email |-> email, password_hash |-> hash,
              verification_token |-> token, verified_at |-> NULL]
      old == GetUserByEmail(email)
      new == [id |-> (CHOOSE u \in old : TRUE).id, email |-> email,
              password_hash |-> hash, verification_token |-> token,
              verified_at |-> NULL]
  IN  IF old = {}
      THEN [ok |-> TRUE, row |-> row, users |-> users \cup {row}]
      ELSE [ok |-> TRUE, row |-> new, users |-> (users \ old) \cup {new}]

\* INSERT INTO users (email, password_hash, verification_token) RETURNING *
CreateUser(email, hash, token) ==
  LET row == [id |-> nextID, email |-> email, password_hash |-> hash,
              verification_token |-> token, verified_at |-> NULL]
  IN  IF EmailFree(email)
      THEN [ok |-> TRUE, row |-> row, users |-> users \cup {row}]
      ELSE [ok |-> FALSE, row |-> NULL, users |-> users]

\* variant: the statement matches the token alone and leaves it in the row
VerifyUserKeepsToken(token) ==
  LET hit == {u \in users : token.valid /\ u.verification_token = token}
  IN  [ok |-> hit # {},
       users |-> (users \ hit) \cup
                 {[u EXCEPT !.verified_at = Timestamp] : u \in hit}]

\* variant: the statement clears the token and leaves verified_at as it was
VerifyUserOnlyClears(token) ==
  LET hit == {u \in users : /\ token.valid
                            /\ u.verification_token = token
                            /\ u.verified_at = NULL}
  IN  [ok |-> hit # {},
       users |-> (users \ hit) \cup
                 {[u EXCEPT !.verification_token = NULL] : u \in hit}]

\* variant: the statement never matches a row
VerifyUserNoRow(token) == [ok |-> FALSE, users |-> users]

\* UPDATE users SET verified_at = CURRENT_TIMESTAMP, verification_token = NULL
\* WHERE verification_token = ? AND verified_at IS NULL RETURNING id
VerifyUser(token) ==
  LET hit == {u \in users : /\ token.valid
                            /\ u.verification_token = token
                            /\ u.verified_at = NULL}
  IN  [ok |-> hit # {},
       users |-> (users \ hit) \cup
                 {[u EXCEPT !.verified_at = Timestamp,
                            !.verification_token = NULL] : u \in hit}]

\* ------------------------------------------------------- request handling
\* variant: requests are accepted as soon as the connection is open
ServingEarly == dbOpen

\* requests are handled once main has reached http.ListenAndServe
Serving == pc = "serving"

\* variant: the server is started with the router, not with the nosurf handler
CsrfPassUnwrapped(method, path, tokenOK) == TRUE

\* nosurf: safe methods and exempt paths pass, any other request needs the token
CsrfPass(method, path, tokenOK) ==
  \/ method \in {"GET", "HEAD", "OPTIONS", "TRACE"}
  \/ path \in {"/admin"}
  \/ tokenOK

\* sessionManager.LoadAndSave: the stored session the request's cookie names
Loaded(c) ==
  IF \E s \in sessions : s.token = cookie[c] THEN cookie[c] ELSE NoToken

\* the session tokens some cookie, stored session or request still holds
InUse ==
  {s.token : s \in sessions} \cup {cookie[c] : c \in Clients} \cup
  {r.sess : r \in BagToSet(cb)} \cup {issued[c].token : c \in Clients}

\* a new random session token: one that nothing holds (named by the least)
FreshSession ==
  CHOOSE n \in 1..(Cardinality(InUse) + 1) :
    /\ n \notin InUse
    /\ \A m \in 1..(n - 1) : m \in InUse

\* variant: the user id is put into the session without RenewToken
EstablishKeepsOld(c, old, id) ==
  LET kept == sessions
  IN  /\ Cardinality(kept) < MaxSessions
      /\ sessions' = kept \cup {[token |-> FreshSession, userID |-> id,
                                 ttl |-> Lifetime]}
      /\ cookie' = [cookie EXCEPT ![c] = FreshSession]
      /\ issued' = [issued EXCEPT ![c] = [token |-> FreshSession, age |-> 0,
                                          ended |-> FALSE]]

\* sessionManager.RenewToken, Put("userID", id), and the commit of LoadAndSave
Establish(c, old, id) ==
  LET kept == {s \in sessions : s.token # old}
  IN  /\ Cardinality(kept) < MaxSessions
      /\ sessions' = kept \cup {[token |-> FreshSession, userID |-> id,
                                 ttl |-> Lifetime]}
      /\ cookie' = [cookie EXCEPT ![c] = FreshSession]
      /\ issued' = [issued EXCEPT ![c] = [token |-> FreshSession, age |-> 0,
                                          ended |-> FALSE]]

\* variant: the guard lets every request with a session cookie through
RequireAuthAnyCookie(tok) == tok # NoToken

\* variant: the guard asks for a key that no handler puts into the session
RequireAuthWrongKey(tok) == FALSE

\* requireAuth: sessionManager.Exists(ctx, "userID") for the presented token
RequireAuth(tok) == tok # NoToken /\ \E s \in sessions : s.token = tok

\* the probe notes the request and the response it got
Record(op, csrf, email, password, token, rep) ==
  last' = IF probe
          THEN [seq |-> 1 - last.seq, op |-> op, csrf |-> csrf,
                email |-> email, password |-> password, token |-> token,
                status |-> rep.status, body |-> rep.body]
          ELSE last

\* nosurf's failure handler: http.Error(w, "", 400), the router is not called
CsrfFailure == Response(400, "")

\* variant: the task is started whether or not the row was created
MailTasksAlways(ok, e, token) == {[to |-> e, token |-> token]}

\* POST /signup: the goroutine is started after CreateUser returned no error
MailTasks(ok, e, token) == IF ok THEN {[to |-> e, token |-> token]} ELSE {}

\* POST /signup: the response
SignupReply(ok) ==
  IF ok
  THEN Response(200,
         "User created! Please check your email to verify your account.")
  ELSE Response(500, "Error creating user")

\* variant: a signup that created the row logs the requester in
SignupLogsIn(e, p, tokenOK, dbOK) ==
  /\ Serving
  /\ LET res == CreateUser(e, Bcrypt(p), NotNull(nextToken))
         ok  == CsrfPass("POST", "/signup", tokenOK) /\ dbOK /\ res.ok
         c   == CHOOSE x \in Clients : TRUE
     IN  /\ IF ok
            THEN /\ users' = res.users
                 /\ nextID' = nextID + 1
                 /\ nextToken' = nextToken + 1
                 /\ created' = [created EXCEPT ![e] = Append(@, res.row)]
                 /\ Establish(c, Loaded(c), res.row.id)
                 /\ UNCHANGED rejected
            ELSE /\ rejected' = (rejected \/
                                 (CsrfPass("POST", "/signup", tokenOK) /\ dbOK))
                 /\ UNCHANGED <<users, nextID, nextToken, created, sessions,
                                cookie, issued>>
         /\ mail' = mail \cup MailTasks(ok, e, nextToken)
         /\ Record("signup", tokenOK, e, p, 0,
                   IF CsrfPass("POST", "/signup", tokenOK)
                   THEN SignupReply(ok) ELSE CsrfFailure)
  /\ served' = TRUE
  /\ UNCHANGED <<migVars, histVars, message, cb, verifyOK, replayed, probe>>

\* POST /signup
Signup(e, p, tokenOK, dbOK) ==
  /\ Serving
  /\ IF ~CsrfPass("POST", "/signup", tokenOK)
     THEN /\ Record("signup", tokenOK, e, p, 0, CsrfFailure)
          /\ UNCHANGED <<users, nextID, nextToken, created, rejected, mail>>
     ELSE LET res == CreateUser(e, Bcrypt(p), NotNull(nextToken))
              ok  == dbOK /\ res.ok
          IN  /\ IF ok
                 THEN /\ users' = res.users
                      /\ nextID' = nextID + 1
                      /\ nextToken' = nextToken + 1
                      /\ created' = [created EXCEPT ![e] = Append(@, res.row)]
                      /\ UNCHANGED rejected
                 ELSE /\ rejected' = (rejected \/ dbOK)
                      /\ UNCHANGED <<users, nextID, nextToken, created>>
              /\ mail' = mail \cup MailTasks(ok, e, nextToken)
              /\ Record("signup", tokenOK, e, p, 0, SignupReply(ok))
  /\ served' = TRUE
  /\ UNCHANGED <<migVars, histVars, message, sessions, cb, clientVars,
                 verifyOK, replayed, probe, issued>>

\* the goroutine of signup: sendEmail returns sent or an error that is logged
SendEmail(m, sent) ==
  /\ m \in mail
  /\ mail' = mail \ {m}
  /\ UNCHANGED <<migVars, histVars, storeVars, sessions, cb, served,
                 clientVars, authHist, obsVars>>

\* variant: a token that was redeemed before gets a message of its own
VerifyReplyTellsUsed(dbOK, found) ==
  IF ~dbOK THEN Response(500, "Server error")
  ELSE IF ~found
       THEN IF \E u \in users : u.verified_at.valid
            THEN Response(400, "Token already used")
            ELSE Response(400, "Invalid or expired token")
  ELSE Response(200, "Email verified successfully! You can now login.")

\* GET /verify: the response
VerifyReply(dbOK, found) ==
  IF ~dbOK THEN Response(500, "Server error")
  ELSE IF ~found THEN Response(400, "Invalid or expired token")
  ELSE Response(200, "Email verified successfully! You can now login.")

\* GET /verify?token=t
Verify(t, dbOK) ==
  /\ Serving
  /\ CsrfPass("GET", "/verify", FALSE)
  /\ IF t = EmptyToken
     THEN /\ Record("verify", FALSE, "", "", t, Response(400, "Missing token"))
          /\ UNCHANGED <<users, verifyOK, replayed>>
     ELSE LET res == VerifyUser(NotNull(t))
          IN  /\ IF dbOK /\ res.ok
                 THEN /\ users' = res.users
                      /\ verifyOK' = [verifyOK EXCEPT ![t] = @ + 1]
                      /\ UNCHANGED replayed
                 ELSE /\ replayed' = (replayed \/ (dbOK /\ verifyOK[t] > 0))
                      /\ UNCHANGED <<users, verifyOK>>
              /\ Record("verify", FALSE, "", "", t,
                        VerifyReply(dbOK, res.ok))
  /\ served' = TRUE
  /\ UNCHANGED <<migVars, histVars, nextID, nextToken, message, mail,
                 sessions, cb, clientVars, created, rejected, probe, issued>>

\* the bag of callbacks in flight, with request r replaced by request q
Moved(r, q) == (cb (-) SetToBag({r})) (+) SetToBag({q})

\* GET /auth/{provider}/callback, up to queries.GetUserByEmail
CbLookup(c, e, dbOK) ==
  /\ Serving
  /\ CsrfPass("GET", "/auth/callback", FALSE)
  /\ BagCardinality(cb) < MaxCallbacks
  /\ LET found == GetUserByEmail(e)
         u     == CHOOSE x \in found : TRUE
         req   == [pc |-> "create", client |-> c, email |-> e, sess |-> Loaded(c),
                   id |-> 0, token |-> NULL]
     IN  cb' = IF ~dbOK THEN cb
               ELSE IF found = {} THEN cb (+) SetToBag({req})
               ELSE IF u.verified_at = NULL
                    THEN cb (+) SetToBag({[req EXCEPT
                                             !.pc = "verify", !.id = u.id,
                                             !.token = u.verification_token]})
                    ELSE cb (+) SetToBag({[req EXCEPT !.pc = "login",
                                                      !.id = u.id]})
  /\ IF dbOK THEN UNCHANGED last
     ELSE Record("callback", FALSE, e, "", 0, Response(500, "Database error"))
  /\ served' = TRUE
  /\ UNCHANGED <<migVars, histVars, storeVars, mail, sessions, clientVars,
                 authHist, probe, issued>>

\* the callback found no user: queries.CreateUser with a random password
CbCreate(r, dbOK) ==
  /\ BagIn(r, cb)
  /\ r.pc = "create"
  /\ LET res == CreateUser(r.email, Bcrypt(RandomPassword), NotNull(nextToken))
     IN  IF dbOK /\ res.ok
         THEN /\ users' = res.users
              /\ nextID' = nextID + 1
              /\ nextToken' = nextToken + 1
              /\ created' = [created EXCEPT ![r.email] = Append(@, res.row)]
              /\ cb' = Moved(r, [r EXCEPT !.pc = "verify", !.id = res.row.id,
                                          !.token = NotNull(nextToken)])
              /\ UNCHANGED <<rejected, last>>
         ELSE /\ rejected' = (rejected \/ dbOK)
              /\ cb' = cb (-) SetToBag({r})
              /\ Record("callback", FALSE, r.email, "", 0,
                        Response(500, "Failed to create user"))
              /\ UNCHANGED <<users, nextID, nextToken, created>>
  /\ UNCHANGED <<migVars, histVars, message, mail, sessions, served,
                 clientVars, verifyOK, replayed, probe, issued>>

\* variant: the callback also replaces the password by a random one
CbVerifyResetsPassword(r, dbOK) ==
  /\ BagIn(r, cb)
  /\ r.pc = "verify"
  /\ LET res == VerifyUser(r.token)
     IN  IF dbOK /\ res.ok
         THEN /\ users' = {IF u.id = r.id
                           THEN [u EXCEPT !.password_hash = Bcrypt(RandomPassword)]
                           ELSE u : u \in res.users}
              /\ verifyOK' = [verifyOK EXCEPT ![r.token.val] = @ + 1]
              /\ UNCHANGED replayed
         ELSE /\ replayed' = (replayed \/ (/\ dbOK
                                            /\ r.token.valid
                                            /\ verifyOK[r.token.val] > 0))
              /\ UNCHANGED <<users, verifyOK>>
  /\ cb' = Moved(r, [r EXCEPT !.pc = "login"])
  /\ UNCHANGED <<migVars, histVars, nextID, nextToken, message, mail,
                 sessions, served, clientVars, created, rejected, obsVars>>

\* the callback marks the user verified: queries.VerifyUser, result dropped
CbVerify(r, dbOK) ==
  /\ BagIn(r, cb)
  /\ r.pc = "verify"
  /\ LET res == VerifyUser(r.token)
     IN  IF dbOK /\ res.ok
         THEN /\ users' = res.users
              /\ verifyOK' = [verifyOK EXCEPT ![r.token.val] = @ + 1]
              /\ UNCHANGED replayed
         ELSE /\ replayed' = (replayed \/ (/\ dbOK
                                            /\ r.token.valid
                                            /\ verifyOK[r.token.val] > 0))
              /\ UNCHANGED <<users, verifyOK>>
  /\ cb' = Moved(r, [r EXCEPT !.pc = "login"])
  /\ UNCHANGED <<migVars, histVars, nextID, nextToken, message, mail,
                 sessions, served, clientVars, created, rejected, obsVars>>

\* the callback logs the user in: RenewToken, Put("userID", user.ID), redirect
CbLogin(r) ==
  /\ BagIn(r, cb)
  /\ r.pc = "login"
  /\ Establish(r.client, r.sess, r.id)
  /\ cb' = cb (-) SetToBag({r})
  /\ Record("callback", FALSE, r.email, "", 0, Response(303, "/guestbook"))
  /\ UNCHANGED <<migVars, histVars, storeVars, mail, served, authHist, probe>>

\* variant: the handler does not look at verified_at
LoginReplySkipsVerified(e, p, dbOK) ==
  LET found == GetUserByEmail(e)
      u     == CHOOSE x \in found : TRUE
  IN  IF ~dbOK THEN Response(500, "Database error")
      ELSE IF found = {} THEN Response(401, "Invalid email or password")
      ELSE IF ~CompareHashAndPassword(u.password_hash, p)
           THEN Response(401, "Invalid email or password")
      ELSE Response(303, "/guestbook")

\* POST /login: the response
LoginReply(e, p, dbOK) ==
  LET found == GetUserByEmail(e)
      u     == CHOOSE x \in found : TRUE
  IN  IF ~dbOK THEN Response(500, "Database error")
      ELSE IF found = {} THEN Response(401, "Invalid email or password")
      ELSE IF ~u.verified_at.valid
           THEN Response(401, "Please verify your email before logging in.")
      ELSE IF ~CompareHashAndPassword(u.password_hash, p)
           THEN Response(401, "Invalid email or password")
      ELSE Response(303, "/guestbook")

\* POST /login
Login(c, e, p, tokenOK, dbOK) ==
  /\ Serving
  /\ LET u   == CHOOSE x \in GetUserByEmail(e) : TRUE
         rep == IF CsrfPass("POST", "/login", tokenOK)
                THEN LoginReply(e, p, dbOK) ELSE CsrfFailure
     IN  /\ IF rep.status = 303
            THEN Establish(c, Loaded(c), u.id)
            ELSE UNCHANGED <<sessions, clientVars, issued>>
         /\ Record("login", tokenOK, e, p, 0, rep)
  /\ served' = TRUE
  /\ UNCHANGED <<migVars, histVars, storeVars, mail, cb, authHist, probe>>

\* LoadAndSave's lookup: the stored session a presented token names
Find(tok) == IF \E s \in sessions : s.token = tok THEN tok ELSE NoToken

\* variant: the store reports an error when it has no entry to delete
DestroyFailsIfAbsent(tok) == Find(tok) = NoToken

\* sessionManager.Destroy returns an error: the memory store's Delete never
\* does, whether or not it holds the token
DestroyFails(tok) == FALSE

\* variant: the handler expires the cookie and leaves the store alone
LogoutKeepsSession(c, tok) ==
  /\ Serving
  /\ CsrfPass("GET", "/logout", FALSE)
  /\ tok \in {cookie[c], issued[c].token, Forged}
  /\ cookie' = [cookie EXCEPT ![c] = IF @ = tok THEN NoToken ELSE @]
  /\ issued' = [issued EXCEPT ![c] =
                  IF Find(tok) # NoToken /\ @.token = Find(tok)
                  THEN [@ EXCEPT !.ended = TRUE] ELSE @]
  /\ Record("logout", FALSE, "", "", tok, Response(303, "/"))
  /\ served' = TRUE
  /\ UNCHANGED <<migVars, histVars, storeVars, mail, sessions, cb, authHist,
                 probe>>

\* GET /logout with the cookie, with the token the client was issued last, or
\* with a token nobody issued: sessionManager.Destroy deletes the stored
\* session and expires the cookie the request came with, then the redirect to
\* the home page
Logout(c, tok) ==
  /\ Serving
  /\ CsrfPass("GET", "/logout", FALSE)
  /\ tok \in {cookie[c], issued[c].token, Forged}
  /\ IF DestroyFails(tok)
     THEN /\ Record("logout", FALSE, "", "", tok,
                    Response(500, "Server error"))
          /\ UNCHANGED <<sessions, cookie, issued>>
     ELSE /\ sessions' = {s \in sessions : s.token # Find(tok)}
          /\ cookie' = [cookie EXCEPT ![c] = IF @ = tok THEN NoToken ELSE @]
          /\ issued' = [issued EXCEPT ![c] =
                          IF Find(tok) # NoToken /\ @.token = Find(tok)
                          THEN [@ EXCEPT !.ended = TRUE] ELSE @]
          /\ Record("logout", FALSE, "", "", tok, Response(303, "/"))
  /\ served' = TRUE
  /\ UNCHANGED <<migVars, histVars, storeVars, mail, cb, authHist, probe>>

\* GET /guestbook behind requireAuth, with the cookie or with the token the
\* client was issued last; queries.GetMessage may fail
Guestbook(c, tok, dbOK) ==
  /\ Serving
  /\ CsrfPass("GET", "/guestbook", FALSE)
  /\ tok \in {cookie[c], issued[c].token}
  /\ Record("guestbook", FALSE, "", "", tok,
            IF ~RequireAuth(tok) THEN Response(303, "/login")
            ELSE IF ~dbOK THEN Response(500, "Database error")
            ELSE Response(200, "guestbook"))
  /\ served' = TRUE
  /\ UNCHANGED <<migVars, histVars, storeVars, mail, sessions, cb, clientVars,
                 authHist, probe, issued>>

\* POST /guestbook: the response, after nosurf and requireAuth
GuestbookPostReply(tok, tokenOK, dbOK) ==
  IF ~CsrfPass("POST", "/guestbook", tokenOK) THEN CsrfFailure
  ELSE IF ~RequireAuth(tok) THEN Response(303, "/login")
  ELSE IF ~dbOK THEN Response(500, "Database error")
  ELSE Response(303, "/guestbook")

\* POST /guestbook with the form field message: queries.UpsertMessage
GuestbookPost(c, tok, tokenOK, msg, dbOK) ==
  /\ Serving
  /\ tok \in {cookie[c], issued[c].token}
  /\ LET rep == GuestbookPostReply(tok, tokenOK, dbOK)
     IN  /\ message' = IF rep = Response(303, "/guestbook")
                       THEN NotNull(msg) ELSE message
         /\ Record("post", tokenOK, "", "", tok, rep)
  /\ served' = TRUE
  /\ UNCHANGED <<migVars, histVars, users, nextID, nextToken, mail, sessions,
                 cb, clientVars, authHist, probe, issued>>

\* POST /admin: the response of admin.HandlePost for a request with or without
\* the configured credentials
AdminReply(authOK) ==
  IF authOK THEN Response(200, "admin") ELSE Response(401, "Invalid credentials")

\* POST /admin: nosurf lets the exempt path through, then admin.HandlePost runs
\* the command on dbConn: Ping reads, DeleteRows deletes the users row id
Admin(tokenOK, authOK, cmd, id) ==
  /\ Serving
  /\ cmd \in {"Ping", "DeleteRows"}
  /\ LET rep == IF CsrfPass("POST", "/admin", tokenOK)
                THEN AdminReply(authOK) ELSE CsrfFailure
     IN  /\ users' = IF rep.status = 200 /\ cmd = "DeleteRows"
                     THEN {u \in users : u.id # id} ELSE users
         /\ Record("admin", tokenOK, "", "", 0, rep)
  /\ cmd = "DeleteRows" =>
       /\ \E u \in users : u.id = id
       /\ (nextID - 1) - Cardinality(users) < MaxDeleted
  /\ served' = TRUE
  /\ UNCHANGED <<migVars, histVars, nextID, nextToken, message, mail, sessions,
                 cb, clientVars, authHist, probe, issued>>

\* 12 hours pass: a stored session is found as long as the clock has not
\* passed its deadline (memstore Find, and its cleanup)
Tick ==
  /\ \E c \in Clients : issued[c].token # NoToken /\ issued[c].age <= Lifetime
  /\ sessions' = {[s EXCEPT !.ttl = @ - 1] : s \in {x \in sessions : x.ttl > 0}}
  /\ issued' = [c \in Clients |->
                  IF issued[c].token # NoToken /\ issued[c].age <= Lifetime
                  THEN [issued[c] EXCEPT !.age = @ + 1] ELSE issued[c]]
  /\ UNCHANGED <<migVars, histVars, storeVars, mail, cb, served, clientVars,
                 authHist, probe, last>>

Requests ==
  \/ \E e \in Emails, p \in Passwords, tokenOK \in BOOLEAN, dbOK \in BOOLEAN :
       Signup(e, p, tokenOK, dbOK)
  \/ \E m \in mail, sent \in BOOLEAN : SendEmail(m, sent)
  \/ \E t \in TokenInputs \cup {EmptyToken}, dbOK \in BOOLEAN : Verify(t, dbOK)
  \/ \E c \in Clients, e \in Emails, dbOK \in BOOLEAN :
       CbLookup(c, e, dbOK)
  \/ \E r \in BagToSet(cb), dbOK \in BOOLEAN : CbCreate(r, dbOK)
  \/ \E r \in BagToSet(cb), dbOK \in BOOLEAN : CbVerify(r, dbOK)
  \/ \E r \in BagToSet(cb) : CbLogin(r)
  \/ \E c \in Clients, e \in Emails \cup {Unknown}, p \in Passwords,
        tokenOK \in BOOLEAN, dbOK \in BOOLEAN : Login(c, e, p, tokenOK, dbOK)

\* the steps of runMigrations over scripts that all carry a numeric prefix
RunMigrations ==
  \/ CreateTable \/ ReadVersion \/ ListEntries \/ SkipApplied
  \/ Begin \/ TxExec \/ TxInsert \/ TxCommit \/ RunDone

Boot == Start \/ RunMigrations \/ SetupFail \/ Fatal \/ SetupOK \/ Listen \/ Crash

\* the runner alone, over any scripts: SkipUnparsed is the one step that only
\* names without a numeric prefix enable, and the repository has no such name
NextMig == Boot \/ SkipUnparsed \/ Redeploy

SpecMig == InitMig /\ [][NextMig]_vars

\* the program: startup, then the request handlers
Next == Boot \/ Requests

Spec == Init /\ [][Next]_vars

\* one run of the process: main up to http.ListenAndServe, no kill after it
Run == Start \/ RunMigrations \/ SetupFail \/ Fatal \/ SetupOK \/ Listen

\* the runner over one unchanged migrations directory: a process whose run
\* failed exits and is started again
NextRetry == Run \/ SkipUnparsed

SpecRetry == InitMig /\ [][NextRetry]_vars

\* the password path with sessions and the clock, seen by the probe; the
\* forms carry the anti-forgery token
NextPw ==
  \/ Run
  \/ \E e \in Emails, p \in Passwords, dbOK \in BOOLEAN :
       Signup(e, p, TRUE, dbOK)
  \/ \E m \in mail, sent \in BOOLEAN : SendEmail(m, sent)
  \/ \E t \in TokenInputs \cup {EmptyToken}, dbOK \in BOOLEAN : Verify(t, dbOK)
  \/ \E c \in Clients, e \in Emails \cup {Unknown}, p \in Passwords,
        dbOK \in BOOLEAN : Login(c, e, p, TRUE, dbOK)
  \/ \E c \in Clients :
       \E tok \in {cookie[c], issued[c].token, Forged} : Logout(c, tok)
  \/ \E c \in Clients, dbOK \in BOOLEAN :
       \E tok \in {cookie[c], issued[c].token} : Guestbook(c, tok, dbOK)
  \/ Tick

SpecPw == InitProbe /\ [][NextPw]_vars

\* the routes behind nosurf and requireAuth, seen by the probe; the forms come
\* with or without the anti-forgery token, the users table answers
NextWeb ==
  \/ Run
  \/ \E e \in Emails, p \in Passwords, tokenOK \in BOOLEAN :
       Signup(e, p, tokenOK, TRUE)
  \/ \E t \in TokenInputs \cup {EmptyToken} : Verify(t, TRUE)
  \/ \E c \in Clients, e \in Emails, p \in Passwords, tokenOK \in BOOLEAN :
       Login(c, e, p, tokenOK, TRUE)
  \/ \E c \in Clients :
       \E tok \in {cookie[c], issued[c].token, Forged} : Logout(c, tok)
  \/ \E c \in Clients, dbOK \in BOOLEAN :
       \E tok \in {cookie[c], issued[c].token} : Guestbook(c, tok, dbOK)
  \/ \E c \in Clients, tokenOK \in BOOLEAN, msg \in Messages, dbOK \in BOOLEAN :
       \E tok \in {cookie[c], issued[c].token} :
         GuestbookPost(c, tok, tokenOK, msg, dbOK)
  \/ \E tokenOK \in BOOLEAN, authOK \in BOOLEAN : Admin(tokenOK, authOK, "Ping", 0)
  \/ Tick

SpecWeb == InitProbe /\ [][NextWeb]_vars

\* the password path next to an administrator who deletes user rows
NextAdmin ==
  \/ Run
  \/ \E e \in Emails, p \in Passwords : Signup(e, p, TRUE, TRUE)
  \/ \E t \in TokenInputs \cup {EmptyToken} : Verify(t, TRUE)
  \/ \E c \in Clients, e \in Emails, p \in Passwords : Login(c, e, p, TRUE, TRUE)
  \/ \E c \in Clients : Logout(c, cookie[c])
  \/ \E c \in Clients, dbOK \in BOOLEAN : Guestbook(c, cookie[c], dbOK)
  \/ \E tokenOK \in BOOLEAN, authOK \in BOOLEAN, cmd \in {"Ping", "DeleteRows"},
        id \in 1..nextID : Admin(tokenOK, authOK, cmd, id)
  \/ Tick

SpecAdmin == Init /\ [][NextAdmin]_vars

\* every way to an account and to a session, seen by the probe: signup, verify
\* and password login next to the OAuth callback, the store answering the
\* callback
NextAuth ==
  \/ Run
  \/ \E e \in Emails, p \in Passwords, tokenOK \in BOOLEAN, dbOK \in BOOLEAN :
       Signup(e, p, tokenOK, dbOK)
  \/ \E t \in TokenInputs : Verify(t, TRUE)
  \/ \E c \in Clients, e \in Emails, p \in Passwords, tokenOK \in BOOLEAN :
       Login(c, e, p, tokenOK, TRUE)
  \/ \E c \in Clients, e \in Emails : CbLookup(c, e, TRUE)
  \/ \E r \in BagToSet(cb) : CbCreate(r, TRUE)
  \/ \E r \in BagToSet(cb) : CbVerify(r, TRUE)
  \/ \E r \in BagToSet(cb) : CbLogin(r)

SpecAuth == InitProbe /\ [][NextAuth]_vars

\* every operation on accounts and sessions in one run of the program, the
\* store answering the callback
NextLife == NextAuth \/ \E c \in Clients : Logout(c, cookie[c])

SpecLife == Init /\ [][NextLife]_vars

\* OAuth callbacks racing in one run of the process, the store answering
NextRace ==
  \/ Run
  \/ \E c \in Clients, e \in Emails : CbLookup(c, e, TRUE)
  \/ \E r \in BagToSet(cb) : CbCreate(r, TRUE)
  \/ \E r \in BagToSet(cb) : CbVerify(r, TRUE)
  \/ \E r \in BagToSet(cb) : CbLogin(r)

SpecRace == Init /\ [][NextRace]_vars

\* ------------------------------------------------------- migration claims
Version(name) == ParseVersion(name).val

\* the entries a run that started at version base has to apply
Due(base) ==
  {n \in Range(entries) : ParseVersion(n).ok /\ Version(n) > base}

\* C1: a run that follows a successful run of the same scripts executes no
\* script and leaves the schema and the version records as it found them.
C1_Idempotent ==
  prevRunOK => /\ runExec = <<>>
               /\ runCommitted = <<>>
               /\ schema = startSchema
               /\ schema_migrations = startVersions

\* a second run has completed on a store the first run has migrated
C1_Witness ==
  /\ prevRunOK
  /\ pc = "migrated"
  /\ startVersions # <<>>

\* C2: in the committed store the script effects and the version records go
\* pairwise: the i-th committed script is the script of the i-th recorded
\* version, so no version is recorded without its script and no script is in
\* effect without its version, also after a run that failed.
C2_Atomic ==
  /\ Len(schema) = Len(schema_migrations)
  /\ \A i \in 1..Len(schema) :
       /\ ParseVersion(schema[i]).ok
       /\ Version(schema[i]) = schema_migrations[i]

\* a run failed at the version insert after it had committed a script
C2_Witness ==
  /\ failedAt = "insert"
  /\ runCommitted # <<>>
  /\ pc = "exited"

\* C3: no script and no version takes effect twice, no version is recorded
\* twice, and the versions are recorded in strictly increasing order.
C3_AppliedOnceIncreasing ==
  /\ \A i, j \in 1..Len(schema) :
       i # j => Version(schema[i]) # Version(schema[j])
  /\ \A i, j \in 1..Len(schema_migrations) :
       i # j => schema_migrations[i] # schema_migrations[j]
  /\ \A i, j \in 1..Len(schema_migrations) :
       i < j => schema_migrations[i] < schema_migrations[j]

\* C4: the versions one run commits are committed in ascending order.
C4_RunAscending ==
  \A i, j \in 1..Len(runCommitted) : i < j => runCommitted[i] < runCommitted[j]

\* C5: a run executes no script whose version is at most the maximum recorded
\* when it started, and a successful run has executed and recorded exactly the
\* scripts above that maximum.
C5_ExactlyPending ==
  LET base == MaxVersion(startVersions)
  IN  /\ \A n \in Range(runExec) : Version(n) > base
      /\ pc \in {"migrated", "routes"} =>
           /\ Range(runExec) = Due(base)
           /\ \A n \in Due(base) :
                /\ n \in Range(schema)
                /\ Version(n) \in Range(runCommitted)

\* a successful run applied a script and passed over an unrecorded version
C5_Witness ==
  /\ pc = "migrated"
  /\ runExec # <<>>
  /\ \E n \in Range(entries) :
       /\ ParseVersion(n).ok
       /\ Version(n) > 0
       /\ Version(n) <= MaxVersion(startVersions)
       /\ Version(n) \notin Range(schema_migrations)

\* C6: an entry whose name does not parse is never executed and never in
\* effect, and passing it is a plain step to the next entry: no failure, no
\* change of the store.
C6_UnparsedIgnored ==
  /\ [](\A n \in Range(schema) \cup Range(txSchema) \cup Range(runExec) :
          ParseVersion(n).ok)
  /\ [][(/\ pc = "loop"
         /\ idx <= Len(entries)
         /\ ~ParseVersion(Entry).ok
         /\ pc' # "exited")
        => /\ pc' = "loop"
           /\ idx' = idx + 1
           /\ UNCHANGED <<schema, schema_migrations, txSchema, txVersions,
                          runExec, failedAt>>]_vars

\* a run succeeded that applied a script listed after an unparsable entry
C6_Witness ==
  /\ pc = "migrated"
  /\ \E i, j \in 1..Len(entries) :
       /\ i < j
       /\ ~ParseVersion(entries[i]).ok
       /\ entries[j] \in Range(runExec)
       /\ entries[j] \in Range(schema)

\* C7: once a step of the run has failed the process only closes the
\* connection and exits: the transaction is gone, no query handle exists, no
\* further script is executed or recorded, and serving is never reached.
C7_FailFast ==
  /\ [](failedAt # "none" =>
          /\ pc \in {"failed", "fatal", "exited"}
          /\ txSchema = <<>>
          /\ txVersions = <<>>
          /\ ~queries
          /\ (pc # "failed" => ~dbOpen))
  /\ [][(failedAt # "none" /\ failedAt' # "none") =>
          UNCHANGED <<runExec, runCommitted, schema, schema_migrations, idx>>]_vars

\* a run failed at a commit with an entry still to go, and the process exited
C7_Witness ==
  /\ failedAt = "commit"
  /\ pc = "exited"
  /\ idx < Len(entries)
  /\ ~dbOpen

\* --------------------------------------------------------- account claims
\* C8: whenever a request has been handled or is in flight, or a session or
\* an email task exists, the process is serving after exactly one migration
\* run that did not fail: no transaction is open, no script is pending and
\* every script of the repository is in effect and recorded.
C8_MigratedBeforeServing ==
  (served \/ cb # EmptyBag \/ sessions # {} \/ mail # {}) =>
    /\ pc = "serving"
    /\ runs = 1
    /\ failedAt = "none"
    /\ dbOpen /\ queries
    /\ txSchema = <<>> /\ txVersions = <<>>
    /\ Due(MaxVersion(schema_migrations)) = {}
    /\ \A n \in Range(entries) :
         n \in Range(schema) /\ Version(n) \in Range(schema_migrations)

\* a request has created a user in a process that is serving
C8_Witness ==
  /\ served
  /\ users # {}
  /\ pc = "serving"
  /\ Len(schema_migrations) = Len(entries)

\* C9: no email has more than one row and CreateUser never succeeds twice
\* for one email; once a row exists for an email, CreateUser for that email
\* is refused and leaves the table as it is, and the row is still the one
\* first created (same id and password hash, so the first password still
\* validates), with its token and verified-at changed by verification only.
C9_CreateConflict ==
  \A e \in Emails :
    /\ Cardinality(GetUserByEmail(e)) <= 1
    /\ Len(created[e]) <= 1
    /\ created[e] # <<>> =>
         LET first == created[e][1]
         IN  /\ \A p \in Passwords \cup {RandomPassword} :
                  /\ ~CreateUser(e, Bcrypt(p), NotNull(nextToken)).ok
                  /\ CreateUser(e, Bcrypt(p), NotNull(nextToken)).users = users
             /\ \E u \in users :
                  /\ u.id = first.id
                  /\ u.email = e
                  /\ u.password_hash = first.password_hash
                  /\ \/ u = first
                     \/ /\ u.verified_at # NULL
                        /\ u.verification_token = NULL

\* a second CreateUser was refused and the row of the first signup is there
C9_Witness ==
  /\ rejected
  /\ \E u \in users :
       /\ CompareHashAndPassword(u.password_hash, "pw1")
       /\ u.verified_at = NULL
       /\ created[u.email] = <<u>>

\* C10: VerifyUser succeeds at most once for a token; after the success no
\* row carries the token, the row it was issued to is verified, and a further
\* VerifyUser with the token finds no row and leaves the table as it is.
C10_VerifyOnce ==
  \A t \in TokenInputs :
    /\ verifyOK[t] <= 1
    /\ verifyOK[t] = 1 =>
         /\ ~VerifyUser(NotNull(t)).ok
         /\ VerifyUser(NotNull(t)).users = users
         /\ \A u \in users : u.verification_token # NotNull(t)
         /\ \E e \in Emails, u \in users :
              /\ created[e] # <<>>
              /\ created[e][1].verification_token = NotNull(t)
              /\ u.id = created[e][1].id
              /\ u.verified_at # NULL

\* a token was taken once and a later VerifyUser with it found no row, while
\* a callback that has made its VerifyUser call is in flight
C10_Witness ==
  /\ replayed
  /\ \E t \in TokenInputs : verifyOK[t] = 1
  /\ \E r \in BagToSet(cb) : r.pc = "login" /\ r.token.valid

\* C11: every user row is unverified (verification token set, verified-at
\* null) or verified (verified-at set, verification token null), never both
\* set and never both null.
C11_TwoShapes ==
  \A u \in users :
    \/ u.verification_token.valid /\ ~u.verified_at.valid
    \/ ~u.verification_token.valid /\ u.verified_at.valid

\* a row that VerifyUser has moved from the unverified to the verified shape
C11_Witness ==
  \E u \in users, e \in Emails :
    /\ created[e] # <<>>
    /\ created[e][1].id = u.id
    /\ created[e][1].verification_token.valid
    /\ ~created[e][1].verified_at.valid
    /\ verifyOK[created[e][1].verification_token.val] = 1
    /\ u.verified_at.valid

\* ------------------------------------------------- password path claims
\* the probe saw a request of this kind in this step
Seen(op) == last'.seq # last.seq /\ last'.op = op

\* the probe saw a request of this kind reach its handler in this step
Handled(op) == Seen(op) /\ Response(last'.status, last'.body) # CsrfFailure

\* the row of the email has this password and is verified
Passes(e, p) ==
  \E u \in GetUserByEmail(e) :
    u.verified_at.valid /\ CompareHashAndPassword(u.password_hash, p)

\* C12: a password login that fails on any of the three checks gets the
\* response that a login with an unknown email gets.
C12_SameFailure ==
  (last.op = "login" /\ last.csrf /\ last.status \notin {303, 500}) =>
    Response(last.status, last.body) = LoginReply(Unknown, last.password, TRUE)

\* C13: a password login leaves the store as it is; it changes the session
\* store or the cookie only when the email has a row that is verified and
\* holds the presented password, and then the new session carries that row's
\* id; when a check fails, sessions and cookies are as before.
C13_LoginAllChecks ==
  [][Handled("login") =>
       /\ UNCHANGED storeVars
       /\ (sessions' # sessions \/ cookie' # cookie) =>
            /\ Passes(last'.email, last'.password)
            /\ \E c \in Clients, u \in GetUserByEmail(last'.email) :
                 /\ cookie'[c] \notin {s.token : s \in sessions}
                 /\ [token |-> cookie'[c], userID |-> u.id,
                     ttl |-> Lifetime] \in sessions'
       /\ ~Passes(last'.email, last'.password) =>
            UNCHANGED <<sessions, cookie, issued>>]_vars

\* a login with a wrong password for a verified account left no session
C13_Witness ==
  /\ last.op = "login"
  /\ last.status = 401
  /\ \E u \in GetUserByEmail(last.email) :
       /\ u.verified_at.valid
       /\ ~CompareHashAndPassword(u.password_hash, last.password)
  /\ sessions = {}

\* C14: for a row created by signup, a login with its password is refused
\* with no session while the row is unverified; a /verify that succeeds with
\* the row's token leaves the row verified; and once it is verified the same
\* login, when the store answers, is redirected and the client's new cookie
\* passes requireAuth with the row's id.
C14_LoginAfterVerify ==
  [][/\ Handled("login") =>
          \A u \in GetUserByEmail(last'.email) :
            CompareHashAndPassword(u.password_hash, last'.password) =>
              IF ~u.verified_at.valid
              THEN /\ last'.status \in {401, 500}
                   /\ UNCHANGED <<sessions, cookie>>
              ELSE \/ last'.status = 500
                   \/ /\ last'.status = 303
                      /\ \E c \in Clients :
                           /\ RequireAuth(cookie[c])'
                           /\ cookie'[c] # cookie[c]
                           /\ \E s \in sessions' : /\ s.token = cookie'[c]
                                                   /\ s.userID = u.id
     /\ (Handled("verify") /\ last'.status = 200) =>
          \E u \in users :
            /\ u.verification_token = NotNull(last'.token)
            /\ \E v \in users' : v.id = u.id /\ v.verified_at.valid]_vars

\* the signup password logged in after /verify took the signup token, and the
\* cookie passes requireAuth
C14_Witness ==
  /\ last.op = "login"
  /\ last.status = 303
  /\ created[last.email] # <<>>
  /\ created[last.email][1].password_hash = Bcrypt(last.password)
  /\ verifyOK[created[last.email][1].verification_token.val] = 1
  /\ \E c \in Clients : RequireAuth(cookie[c])

\* C15: a signup starts the email task exactly when it created the row, and
\* answers while the task is still pending; a signup that created no row
\* starts none; the step that runs a task, sent or failed, changes neither
\* the users table nor any response; a pending task has its row.
C15_MailDetached ==
  /\ [](\A m \in mail : \E u \in users : u.email = m.to)
  /\ [][/\ (Handled("signup") /\ last'.status = 200) =>
             /\ \E m \in mail' \ mail : m.to = last'.email
             /\ \E u \in users' \ users : u.email = last'.email
        /\ (Handled("signup") /\ last'.status # 200) =>
             /\ mail' = mail
             /\ users' = users
        /\ (mail' # mail /\ mail' \subseteq mail) =>
             /\ UNCHANGED storeVars
             /\ UNCHANGED last]_vars

\* the task of a signup has run and the response and the row are as they were
C15_Witness ==
  /\ last.op = "signup"
  /\ last.status = 200
  /\ mail = {}
  /\ \E u \in users : /\ u.email = last.email
                      /\ u.password_hash = Bcrypt(last.password)
                      /\ ~u.verified_at.valid

\* ------------------------------------------------- OAuth callback claims
\* the callback request r ends in this step
Ends(r) == BagIn(r, cb) /\ cb' = cb (-) SetToBag({r})

\* C16: no email ever has two rows, and when the callbacks that raced for a
\* new provider email have all ended, the email has exactly one row and that
\* row is verified.
C16_OneVerifiedRow ==
  /\ \A e \in Emails : Cardinality(GetUserByEmail(e)) <= 1
  /\ (cb = EmptyBag /\ \E e \in Emails : created[e] # <<>>) =>
       \A e \in Emails :
         created[e] # <<>> =>
           /\ Cardinality(GetUserByEmail(e)) = 1
           /\ \A u \in GetUserByEmail(e) :
                u.verified_at.valid /\ ~u.verification_token.valid

\* two callbacks raced for the email: one was refused by CreateUser, all have
\* ended, and the row of the winner is verified
C16_Witness ==
  /\ rejected
  /\ cb = EmptyBag
  /\ \E u \in users : /\ u.password_hash = Bcrypt(RandomPassword)
                      /\ u.verified_at.valid
                      /\ verifyOK[created[u.email][1].verification_token.val] = 1

\* C17: a callback whose CreateUser is refused because the email was taken
\* since its lookup ends with a session for the row that holds the email.
C17_LoserReReads ==
  [][\A r \in BagToSet(cb) :
       (r.pc = "create" /\ GetUserByEmail(r.email) # {} /\ Ends(r)) =>
         \E s \in sessions' \ sessions, u \in GetUserByEmail(r.email) :
           s.userID = u.id]_vars

\* C18: every callback that got past provider authentication and the lookup
\* ends with a new session for the row of its email, and that row is verified
\* when the session is issued.
C18_SessionForVerified ==
  [][\A r \in BagToSet(cb) :
       Ends(r) =>
         \E s \in sessions' \ sessions, u \in users' :
           /\ u.email = r.email
           /\ s.userID = u.id
           /\ s.token = cookie'[r.client]
           /\ u.verified_at.valid]_vars

\* C19: a row that a callback created stays unverified only while that
\* callback is between its CreateUser and its VerifyUser.
C19_NoUnverifiedLeftover ==
  \A u \in users :
    (u.password_hash = Bcrypt(RandomPassword) /\ ~u.verified_at.valid) =>
      \E r \in BagToSet(cb) : r.pc = "verify" /\ r.id = u.id

\* ------------------------------------------------------- session claims
\* the token last issued to client c is within its lifetime and no logout
\* has destroyed it
Alive(c) ==
  /\ issued[c].token # NoToken
  /\ ~issued[c].ended
  /\ issued[c].age <= Lifetime

\* C20: in one run of the process, the session token issued to a client at
\* login passes requireAuth exactly as long as the clock has not passed its
\* deadline (issue time plus Lifetime) and no logout has destroyed it; a
\* /guestbook request that presents it is redirected to /login exactly when
\* it is expired or destroyed.
C20_ValidUntilExpiryOrLogout ==
  /\ [](\A c \in Clients :
          issued[c].token # NoToken =>
            (RequireAuth(issued[c].token) <=> Alive(c)))
  /\ [][Handled("guestbook") =>
          \A c \in Clients :
            (last'.token = issued[c].token /\ last'.token # NoToken) =>
              (last'.status = 303 <=> ~Alive(c))]_vars

\* a client replays the token that its logout destroyed before the deadline,
\* and is redirected to /login
C20_Witness ==
  \E c \in Clients :
    /\ issued[c].ended
    /\ issued[c].age <= Lifetime
    /\ last.op = "guestbook"
    /\ last.token = issued[c].token
    /\ last.status = 303

\* the session token the request that ends in this step arrived with
Arrived(c) ==
  IF cb' = cb THEN cookie[c]
  ELSE (CHOOSE r \in BagToSet(cb) : Ends(r)).sess

\* C21: a step that authenticates (a password login or an OAuth callback that
\* puts a user id into a session) stores exactly one new session under a token
\* that nothing held before, hands that token to the client, and leaves no
\* stored session under the token the request arrived with.
C21_RenewedOnLogin ==
  [][\A n \in sessions' \ sessions :
       /\ sessions' \ sessions = {n}
       /\ n.token \notin InUse
       /\ \E c \in Clients :
            /\ cookie'[c] = n.token
            /\ \A s \in sessions' : s.token # Arrived(c)]_vars

\* a callback that arrived with a valid session is still in flight, and a login
\* in between has replaced that session: the old token no longer validates,
\* the client's new one does
C21_Witness ==
  \E r \in BagToSet(cb) :
    /\ r.sess # NoToken
    /\ ~RequireAuth(r.sess)
    /\ RequireAuth(cookie[r.client])

\* C22: every logout, whatever token it presents (the cookie of a stored
\* session, no cookie, a token nobody issued, a destroyed or an expired one),
\* is answered with the redirect to the home page, leaves the store as it is
\* and every session under another token as it is, and adds no session; when
\* the presented token has no stored session, the session store is unchanged.
C22_LogoutIdempotent ==
  [][Seen("logout") =>
       /\ Response(last'.status, last'.body) = Response(303, "/")
       /\ UNCHANGED storeVars
       /\ sessions' = {s \in sessions : s.token # last'.token}
       /\ ~RequireAuth(last'.token) => UNCHANGED sessions]_vars

\* a logout presented a token whose session had expired: it was redirected
\* like any logout, and the account is still there
C22_Witness ==
  \E c \in Clients :
    /\ issued[c].token # NoToken
    /\ ~issued[c].ended
    /\ issued[c].age > Lifetime
    /\ last.op = "logout"
    /\ last.token = issued[c].token
    /\ Response(last.status, last.body) = Response(303, "/")
    /\ users # {}

\* ------------------------------------------------- guard and forgery claims
\* C23: a GET or POST /guestbook that gets past the forgery check is answered
\* by its handler (the page, the redirect to /guestbook, or the handler's
\* database error) only when the session store holds a session with a user id
\* under the presented token; otherwise (no cookie, an expired or a destroyed
\* session) the answer is the redirect to /login, whether or not the database
\* answers, and the guestbook message is as before. The message changes in no
\* step but a POST /guestbook with such a session.
C23_GuardedRoutes ==
  [][/\ \A op \in {"guestbook", "post"} :
          Handled(op) =>
            \/ \E s \in sessions : s.token = last'.token /\ s.userID \in 1..nextID
            \/ /\ Response(last'.status, last'.body) = Response(303, "/login")
               /\ UNCHANGED message
     /\ message' # message =>
          /\ Handled("post")
          /\ \E s \in sessions : s.token = last'.token]_vars

\* a POST /guestbook with the anti-forgery token presented a session token
\* that had expired: it was sent to /login and no message was written
C23_Witness ==
  \E c \in Clients :
    /\ issued[c].token # NoToken
    /\ ~issued[c].ended
    /\ issued[c].age > Lifetime
    /\ last.op = "post"
    /\ last.csrf
    /\ last.token = issued[c].token
    /\ Response(last.status, last.body) = Response(303, "/login")
    /\ message = NoMessage

\* C24: every stored session that passes requireAuth carries the id of a row
\* of the users table.
C24_NoSessionWithoutUser ==
  \A s \in sessions :
    RequireAuth(s.token) => \E u \in users : u.id = s.userID

\* C25: a request that carries no valid anti-forgery token leaves the user
\* rows, the session store and the guestbook message as they were.
C25_NoEffectWithoutToken ==
  [][(last'.seq # last.seq /\ ~last'.csrf) =>
       UNCHANGED <<users, sessions, message>>]_vars

\* C26: a POST to /signup, /login or /guestbook without the anti-forgery token
\* gets nosurf's failure response and changes nothing its handler could
\* change; a POST to /admin is answered by the admin handler with or without
\* the token.
C26_ExemptOnlyAdmin ==
  [][/\ \A op \in {"signup", "login", "post"} :
          (Seen(op) /\ ~last'.csrf) =>
            /\ Response(last'.status, last'.body) = CsrfFailure
            /\ UNCHANGED <<storeVars, mail, sessions, cookie, issued>>
     /\ Seen("admin") =>
          Response(last'.status, last'.body) \in
            {AdminReply(TRUE), AdminReply(FALSE)}]_vars

\* a POST /admin without the anti-forgery token was answered by the admin
\* handler
C26_Witness ==
  /\ last.op = "admin"
  /\ ~last.csrf
  /\ Response(last.status, last.body) = AdminReply(TRUE)

\* C27: a /verify that presents a token no unverified row holds (never
\* issued, or redeemed before) is answered with 400 "Invalid or expired
\* token", or with the server error of a failing store, whatever the reason,
\* and leaves the store as it is.
C27_SameInvalidReply ==
  [][(/\ Handled("verify")
      /\ last'.token # EmptyToken
      /\ ~\E u \in users : /\ u.verification_token = NotNull(last'.token)
                           /\ ~u.verified_at.valid) =>
       /\ Response(last'.status, last'.body) \in
            {Response(400, "Invalid or expired token"),
             Response(500, "Server error")}
       /\ UNCHANGED storeVars]_vars

\* a /verify presented a token that an earlier /verify had redeemed and got
\* the reply a token that was never issued gets
C27_Witness ==
  /\ replayed
  /\ last.op = "verify"
  /\ last.token \in TokenInputs
  /\ verifyOK[last.token] = 1
  /\ Response(last.status, last.body) = VerifyReply(TRUE, FALSE)
  /\ \E t \in TokenInputs : \A e \in Emails : \A i \in 1..Len(created[e]) :
       created[e][i].verification_token # NotNull(t)

\* ------------------------------------------------- migration retry claim
\* C28: what earlier runs committed stays recorded and applied; a run executes
\* no script at or below the maximum recorded when it started; and when a run
\* has succeeded, also after runs that failed, every script version is
\* recorded exactly once.
C28_RetryCompletes ==
  /\ Len(startVersions) <= Len(schema_migrations)
  /\ SubSeq(schema_migrations, 1, Len(startVersions)) = startVersions
  /\ SubSeq(schema, 1, Len(startSchema)) = startSchema
  /\ \A i \in 1..Len(runExec) :
       Version(runExec[i]) > MaxVersion(startVersions)
  /\ pc = "migrated" =>
       \A n \in Range(entries) :
         ParseVersion(n).ok =>
           Cardinality({i \in 1..Len(schema_migrations) :
                          schema_migrations[i] = Version(n)}) = 1

\* ------------------------------------------------- frame claims
\* C29: a POST /signup, created or refused, leaves the session store, the
\* client's cookie and the token issued to it as they were; a step that puts
\* a session into the store is a password login or an OAuth callback that is
\* answered with the redirect to /guestbook, and the session carries the id
\* of the row of the email that logged in.
C29_OnlyLoginsAuthenticate ==
  [][/\ Seen("signup") => UNCHANGED <<sessions, cookie, issued>>
     /\ \A n \in sessions' \ sessions :
          /\ \/ Handled("login")
             \/ Seen("callback") /\ \E r \in BagToSet(cb) : Ends(r) /\ r.pc = "login"
          /\ Response(last'.status, last'.body) = Response(303, "/guestbook")
          /\ \E u \in GetUserByEmail(last'.email) : u.id = n.userID]_vars

\* a signup has created the account and the client has no session: no stored
\* session, no cookie, no token issued
C29_Witness ==
  /\ last.op = "signup"
  /\ last.status = 200
  /\ GetUserByEmail(last.email) # {}
  /\ sessions = {}
  /\ \A c \in Clients : cookie[c] = NoToken /\ issued[c] = NoIssue

\* the row that signup created for the email, as signup wrote it
SignedUp(e) == created[e][1]

\* C30: for an account created by password signup, the step of an OAuth
\* callback that verifies it changes nothing in the users table but
\* verified_at and the verification token of that row; once the row is
\* verified, a password login with the signup password is redirected to
\* /guestbook, and a /verify with the token signup had mailed gets 400
\* "Invalid or expired token" and changes no row.
C30_CallbackKeepsPassword ==
  [][\A e \in Emails :
       (created[e] # <<>> /\ SignedUp(e).password_hash # Bcrypt(RandomPassword)) =>
         /\ \A r \in BagToSet(cb) :
              (r.pc = "verify" /\ r.email = e /\ users' # users
                 /\ cb' = Moved(r, [r EXCEPT !.pc = "login"])) =>
                users' = (users \ {SignedUp(e)}) \cup
                         {[SignedUp(e) EXCEPT !.verified_at = Timestamp,
                                              !.verification_token = NULL]}
         /\ \A u \in GetUserByEmail(e) :
              u.verified_at.valid =>
                /\ u.password_hash = SignedUp(e).password_hash
                /\ (/\ Handled("login")
                    /\ last'.email = e
                    /\ Bcrypt(last'.password) = SignedUp(e).password_hash) =>
                      Response(last'.status, last'.body) =
                        Response(303, "/guestbook")
                /\ (/\ Handled("verify")
                    /\ NotNull(last'.token) = SignedUp(e).verification_token) =>
                      /\ Response(last'.status, last'.body) =
                           Response(400, "Invalid or expired token")
                      /\ users' = users]_vars

\* an OAuth callback has verified the account that signup created (that
\* callback is about to log in, no /verify has taken the token and none was
\* refused), and a password login with the signup password was redirected
C30_Witness ==
  \E r \in BagToSet(cb) :
    /\ r.pc = "login"
    /\ r.token.valid
    /\ verifyOK[r.token.val] = 1
    /\ ~replayed
    /\ created[r.email] # <<>>
    /\ SignedUp(r.email).id = r.id
    /\ SignedUp(r.email).verification_token = r.token
    /\ last.op = "login"
    /\ last.email = r.email
    /\ Bcrypt(last.password) = SignedUp(r.email).password_hash
    /\ Response(last.status, last.body) = Response(303, "/guestbook")

\* ------------------------------------------------- permanence claim
\* C31: a row whose verified_at is set has no verification token, and every
\* step (signup, verify, login, logout, OAuth callback) leaves it in
\* the users table exactly as it is: verified, without a token, with the
\* same id, email and password hash.
C31_VerifiedForGood ==
  [][\A u \in users :
       u.verified_at.valid =>
         /\ ~u.verification_token.valid
         /\ u \in users'
         /\ \A v \in users' : (v.id = u.id \/ v.email = u.email) => v = u]_vars

\* the account that signup created is verified and is still the row signup
\* wrote but for verified_at and the token, after a /verify that found its
\* token taken, an OAuth callback that found it verified, and a login
C31_Witness ==
  \E e \in Emails, r \in BagToSet(cb) :
    /\ created[e] # <<>>
    /\ [created[e][1] EXCEPT !.verified_at = Timestamp,
                             !.verification_token = NULL] \in users
    /\ replayed
    /\ r.pc = "login" /\ r.email = e /\ ~r.token.valid
    /\ \E s \in sessions : s.userID = created[e][1].id

====
